---- MODULE Spec2Model ----
(***************************************************************************)
(* ConstructSafe risk engine (constructsafe-mvp/app.py): the keyword       *)
(* scanner, the scorer, the aggregator and the SQLite-backed risk store,   *)
(* with several server workers sharing one database file.                  *)
(*                                                                         *)
(* Text is a sequence of one-character strings, so that lower(), upper()   *)
(* and substring containment are computed and not assumed.                 *)
(*                                                                         *)
(* Real numbers are fixed-point integers in units of 1/12000 (0.15 is      *)
(* 1800, 0.5 is 6000, 0.63 is 7560).  Every product and every mean the     *)
(* program can form from its hit counts is exact in this unit, and the     *)
(* IEEE-754 doubles of the program fall in the same priority and level     *)
(* buckets as the exact values for every combination of hit counts.        *)
(***************************************************************************)
EXTENDS Integers, Sequences, FiniteSets, TLC

\* ------------------------------------------------------------------ bounds
NumWorkers == 2
MaxRequests == 3
MaxHits == 7

Workers == 1..NumWorkers

\* ------------------------------------------------------- characters / text
UpperChars ==
  <<"A","B","C","D","E","F","G","H","I","J","K","L","M","N","O","P","Q","R","S","T","U","V","W","X","Y","Z">>
LowerChars ==
  <<"a","b","c","d","e","f","g","h","i","j","k","l","m","n","o","p","q","r","s","t","u","v","w","x","y","z">>

LowerChar(c) ==
  IF \E i \in 1..26 : UpperChars[i] = c
  THEN LowerChars[CHOOSE i \in 1..26 : UpperChars[i] = c]
  ELSE c

UpperChar(c) ==
  IF \E i \in 1..26 : LowerChars[i] = c
  THEN UpperChars[CHOOSE i \in 1..26 : LowerChars[i] = c]
  ELSE c

\* str.lower()
Lower(s) == [i \in 1..Len(s) |-> LowerChar(s[i])]
\* str.upper()
Upper(s) == [i \in 1..Len(s) |-> UpperChar(s[i])]

\* keyword in text_lower
Contains(text, kw) ==
  \E i \in 1..(Len(text) - Len(kw) + 1) :
     \A j \in 1..Len(kw) : text[i + j - 1] = kw[j]

\* ', '.join(items)
RECURSIVE Join(_)
Join(items) ==
  IF items = <<>> THEN <<>>
  ELSE IF Len(items) = 1 THEN items[1]
  ELSE items[1] \o <<",", " ">> \o Join(Tail(items))

\* items[:3]
FirstThree(items) == SubSeq(items, 1, IF Len(items) < 3 THEN Len(items) ELSE 3)

\* ------------------------------------------------------------ RISK_PATTERNS
Categories ==
  << <<"s","c","h","e","d","u","l","e">>,
     <<"c","o","s","t">>,
     <<"s","a","f","e","t","y">>,
     <<"q","u","a","l","i","t","y">> >>

Keywords ==
  << << <<"d","e","l","a","y">>,
        <<"b","e","h","i","n","d"," ","s","c","h","e","d","u","l","e">>,
        <<"l","a","t","e">>,
        <<"p","o","s","t","p","o","n","e">>,
        <<"e","x","t","e","n","s","i","o","n">>,
        <<"t","i","m","e","l","i","n","e">> >>,
     << <<"o","v","e","r"," ","b","u","d","g","e","t">>,
        <<"c","o","s","t"," ","o","v","e","r","r","u","n">>,
        <<"e","x","p","e","n","s","i","v","e">>,
        <<"p","r","i","c","e"," ","i","n","c","r","e","a","s","e">>,
        <<"a","d","d","i","t","i","o","n","a","l"," ","c","o","s","t">>,
        <<"b","u","d","g","e","t"," ","i","s","s","u","e">> >>,
     << <<"a","c","c","i","d","e","n","t">>,
        <<"i","n","j","u","r","y">>,
        <<"u","n","s","a","f","e">>,
        <<"h","a","z","a","r","d">>,
        <<"d","a","n","g","e","r">>,
        <<"v","i","o","l","a","t","i","o","n">>,
        <<"s","a","f","e","t","y"," ","c","o","n","c","e","r","n">> >>,
     << <<"d","e","f","e","c","t">>,
        <<"p","o","o","r"," ","q","u","a","l","i","t","y">>,
        <<"r","e","w","o","r","k">>,
        <<"f","a","i","l","u","r","e">>,
        <<"i","s","s","u","e">>,
        <<"p","r","o","b","l","e","m">>,
        <<"n","o","n","-","c","o","n","f","o","r","m","a","n","c","e">> >> >>

Mitigation ==
  << "Add buffer time, expedite critical path, monitor progress daily",
     "Value engineering, negotiate contracts, monitor expenses weekly",
     "Safety training, daily inspections, implement safety protocols",
     "Quality control checks, supplier evaluation, testing protocols" >>

\* --------------------------------------------------------- scanner / scorer
\* fixed-point product of two values in units of 1/12000
FMul(a, b) == (a * b) \div 12000

\* the inner loop over data["keywords"]: the keywords found, in list order
RECURSIVE FoundKeywords(_, _, _)
FoundKeywords(text_lower, kws, k) ==
  IF k > Len(kws) THEN <<>>
  ELSE (IF Contains(text_lower, kws[k]) THEN <<kws[k]>> ELSE <<>>)
       \o FoundKeywords(text_lower, kws, k + 1)

\* min(len(found_keywords) * 0.15, 0.9)
Probability(n) == IF n * 1800 < 10800 THEN n * 1800 ELSE 10800

\* 0.7 if category in ['safety', 'cost'] else 0.5
Impact(category) ==
  IF category \in { <<"s","a","f","e","t","y">>, <<"c","o","s","t">> }
  THEN 8400 ELSE 6000

\* a slip in the thresholds: 0.4 in place of 0.5
PriorityMutant(risk_score) ==
  IF risk_score > 4800 THEN "HIGH"
  ELSE IF risk_score > 2400 THEN "MEDIUM" ELSE "LOW"

\* "HIGH" if risk_score > 0.5 else "MEDIUM" if risk_score > 0.2 else "LOW"
Priority(risk_score) ==
  IF risk_score > 6000 THEN "HIGH"
  ELSE IF risk_score > 2400 THEN "MEDIUM" ELSE "LOW"

\* the dict appended to detected_risks for one category
RiskEntry(c, found_keywords) ==
  [ category       |-> Upper(Categories[c]),
    keywords_found |-> found_keywords,
    probability    |-> Probability(Len(found_keywords)),
    impact         |-> Impact(Categories[c]),
    risk_score     |-> FMul(Probability(Len(found_keywords)), Impact(Categories[c])),
    priority       |-> Priority(FMul(Probability(Len(found_keywords)), Impact(Categories[c]))),
    mitigation     |-> Mitigation[c] ]

\* the guard on found_keywords left out
CategoryRisksMutant(c, found_keywords) == << RiskEntry(c, found_keywords) >>

\* if found_keywords: append the entry
CategoryRisks(c, found_keywords) ==
  IF found_keywords # <<>> THEN << RiskEntry(c, found_keywords) >> ELSE <<>>

\* the loop over RISK_PATTERNS.items(), from category c on
RECURSIVE ScanFrom(_, _)
ScanFrom(text_lower, c) ==
  IF c > Len(Categories) THEN <<>>
  ELSE CategoryRisks(c, FoundKeywords(text_lower, Keywords[c], 1))
       \o ScanFrom(text_lower, c + 1)

\* detected_risks of analyze_text for a text
DetectRisks(text) == ScanFrom(Lower(text), 1)

RECURSIVE SumScores(_)
SumScores(ds) ==
  IF ds = <<>> THEN 0 ELSE ds[1].risk_score + SumScores(Tail(ds))

\* sum(...) / len(detected_risks) if detected_risks else 0
OverallScore(ds) ==
  IF ds # <<>> THEN SumScores(ds) \div Len(ds) ELSE 0

\* the per-category thresholds 0.5 / 0.2 used for the overall level
RiskLevelMutant(overall_score) ==
  IF overall_score > 6000 THEN "HIGH"
  ELSE IF overall_score > 2400 THEN "MEDIUM" ELSE "LOW"

\* "HIGH" if overall_score > 0.6 else "MEDIUM" if overall_score > 0.3 else "LOW"
RiskLevel(overall_score) ==
  IF overall_score > 7200 THEN "HIGH"
  ELSE IF overall_score > 3600 THEN "MEDIUM" ELSE "LOW"

\* the JSON body returned on success
AnalysisResult(ds) ==
  [ success              |-> TRUE,
    total_risks_detected |-> Len(ds),
    overall_risk_score   |-> OverallScore(ds),
    detected_risks       |-> ds,
    risk_level           |-> RiskLevel(OverallScore(ds)) ]

\* the JSON body returned by every except branch
ErrorResult(msg) == [ success |-> FALSE, error |-> msg ]

\* ------------------------------------------------------------------ state
VARIABLES
  projects,        \* table projects: committed rows, row i has id i
  risks,           \* table risks: committed rows, row i has id i
  lock,            \* worker holding SQLite's write lock, 0 when free
  nreq,            \* requests received so far; CURRENT_TIMESTAMP advances with it
  pc,              \* per worker: "idle", "insert", "update", "done"
  req,             \* per worker: the request being handled
  detected_risks,  \* per worker: detected_risks of analyze_text
  txn,             \* per worker: rows inserted by the open transaction
  result           \* per worker: the response body

vars == << projects, risks, lock, nreq, pc, req, detected_risks, txn, result >>

NoRequest == [ op |-> "none" ]
NoResult == [ success |-> FALSE, error |-> "no response" ]

\* CREATE TABLE projects: a row, status DEFAULT 'Planning'
ProjectRow(id, name, description) ==
  [ id |-> id, name |-> name, description |-> description,
    status |-> "Planning", created_date |-> nreq ]

\* sample_projects inserted by init_db into the empty table
SampleProjects ==
  << [ id |-> 1, name |-> "Downtown Office Tower",
       description |-> "Commercial office building - 20 floors",
       status |-> "Planning", created_date |-> 0 ],
     [ id |-> 2, name |-> "River Bridge Construction",
       description |-> "Highway bridge across River",
       status |-> "Planning", created_date |-> 0 ],
     [ id |-> 3, name |-> "Hospital Renovation",
       description |-> "Medical facility upgrade",
       status |-> "Planning", created_date |-> 0 ] >>

\* the state after init_db() at import time
Init ==
  /\ projects = SampleProjects
  /\ risks = <<>>
  /\ lock = 0
  /\ nreq = 0
  /\ pc = [w \in Workers |-> "idle"]
  /\ req = [w \in Workers |-> NoRequest]
  /\ detected_risks = [w \in Workers |-> <<>>]
  /\ txn = [w \in Workers |-> <<>>]
  /\ result = [w \in Workers |-> NoResult]

\* ----------------------------------------------------------------- analyze
\* the row of one INSERT INTO risks (...) VALUES (...); the table has no
\* foreign key, so project_id is stored as given
RiskRow(id, project_id, risk) ==
  [ id              |-> id,
    project_id      |-> project_id,
    title           |-> risk.category \o <<" ","R","i","s","k"," ","-"," ">>
                        \o Join(FirstThree(risk.keywords_found)),
    description     |-> <<"A","u","t","o","m","a","t","i","c","a","l","l","y"," ","i","d","e","n","t","i","f","i","e","d"," ","f","r","o","m"," ","t","e","x","t"," ","a","n","a","l","y","s","i","s","."," ","K","e","y","w","o","r","d","s",":"," ">>
                        \o Join(risk.keywords_found),
    category        |-> risk.category,
    probability     |-> risk.probability,
    impact          |-> risk.impact,
    risk_score      |-> risk.risk_score,
    status          |-> "Identified",
    priority        |-> risk.priority,
    mitigation_plan |-> risk.mitigation,
    created_date    |-> nreq ]

\* POST /api/analyze/text arrives: scan and score the text, open a connection
AnalyzeStart(w, text, project_id) ==
  /\ pc[w] = "idle"
  /\ nreq < MaxRequests
  /\ nreq' = nreq + 1
  /\ req' = [req EXCEPT ![w] = [ op |-> "analyze", text |-> text, project_id |-> project_id ]]
  /\ detected_risks' = [detected_risks EXCEPT ![w] = DetectRisks(text)]
  /\ txn' = [txn EXCEPT ![w] = <<>>]
  /\ pc' = [pc EXCEPT ![w] = "insert"]
  /\ UNCHANGED << projects, risks, lock, result >>

\* a connection in autocommit mode: every INSERT is committed on its own
AnalyzeInsertMutant(w) ==
  /\ pc[w] = "insert"
  /\ Len(txn[w]) < Len(detected_risks[w])
  /\ lock = 0
  /\ risks' = Append(risks, RiskRow(Len(risks) + 1, req[w].project_id,
                                    detected_risks[w][Len(txn[w]) + 1]))
  /\ txn' = [txn EXCEPT ![w] =
               Append(@, RiskRow(Len(risks) + 1, req[w].project_id,
                                 detected_risks[w][Len(@) + 1]))]
  /\ UNCHANGED << projects, lock, nreq, pc, req, detected_risks, result >>

\* one cursor.execute(INSERT ...) of the loop: the first one begins the
\* transaction and takes the write lock, the row stays uncommitted
AnalyzeInsert(w) ==
  /\ pc[w] = "insert"
  /\ Len(txn[w]) < Len(detected_risks[w])
  /\ lock \in {0, w}
  /\ lock' = w
  /\ txn' = [txn EXCEPT ![w] =
               Append(@, RiskRow(Len(risks) + Len(@) + 1, req[w].project_id,
                                 detected_risks[w][Len(@) + 1]))]
  /\ UNCHANGED << projects, risks, nreq, pc, req, detected_risks, result >>

\* a uniqueness rule on (project_id, category): a row whose project already
\* has a record of that category is dropped
AnalyzeCommitMutant(w) ==
  /\ pc[w] = "insert"
  /\ Len(txn[w]) = Len(detected_risks[w])
  /\ risks' = risks \o SelectSeq(txn[w],
                LAMBDA r : ~\E i \in 1..Len(risks) :
                              /\ risks[i].project_id = r.project_id
                              /\ risks[i].category = r.category)
  /\ lock' = IF lock = w THEN 0 ELSE lock
  /\ txn' = [txn EXCEPT ![w] = <<>>]
  /\ result' = [result EXCEPT ![w] = AnalysisResult(detected_risks[w])]
  /\ pc' = [pc EXCEPT ![w] = "done"]
  /\ UNCHANGED << projects, nreq, req, detected_risks >>

\* conn.commit(), conn.close() and the success response
AnalyzeCommit(w) ==
  /\ pc[w] = "insert"
  /\ Len(txn[w]) = Len(detected_risks[w])
  /\ risks' = risks \o txn[w]
  /\ lock' = IF lock = w THEN 0 ELSE lock
  /\ txn' = [txn EXCEPT ![w] = <<>>]
  /\ result' = [result EXCEPT ![w] = AnalysisResult(detected_risks[w])]
  /\ pc' = [pc EXCEPT ![w] = "done"]
  /\ UNCHANGED << projects, nreq, req, detected_risks >>

\* the first INSERT finds the database locked by another writer and raises
\* after the busy timeout: except branch, nothing was written
AnalyzeBusy(w) ==
  /\ pc[w] = "insert"
  /\ txn[w] = <<>>
  /\ Len(detected_risks[w]) > 0
  /\ lock \notin {0, w}
  /\ result' = [result EXCEPT ![w] = ErrorResult("database is locked")]
  /\ pc' = [pc EXCEPT ![w] = "done"]
  /\ UNCHANGED << projects, risks, lock, nreq, req, detected_risks, txn >>

\* an INSERT, or the COMMIT of a non-empty transaction, raises sqlite3.Error:
\* except branch; the connection is dropped, which rolls the transaction back
AnalyzeStorageError(w) ==
  /\ pc[w] = "insert"
  /\ lock \in {0, w}
  /\ Len(txn[w]) < Len(detected_risks[w]) \/ txn[w] # <<>>
  /\ lock' = 0
  /\ txn' = [txn EXCEPT ![w] = <<>>]
  /\ result' = [result EXCEPT ![w] = ErrorResult("disk I/O error")]
  /\ pc' = [pc EXCEPT ![w] = "done"]
  /\ UNCHANGED << projects, risks, nreq, req, detected_risks >>

\* ------------------------------------------------------------------ update
\* the WHERE clause left out: every row is updated
SetStatusMutant(rows, risk_id, status) ==
  [i \in 1..Len(rows) |-> [rows[i] EXCEPT !.status = status]]

\* conn.execute('UPDATE risks SET status = ? WHERE id = ?')
SetStatus(rows, risk_id, status) ==
  [i \in 1..Len(rows) |->
     IF rows[i].id = risk_id THEN [rows[i] EXCEPT !.status = status] ELSE rows[i]]

\* POST /api/risks/{risk_id}/update: the UPDATE statement begins a transaction
UpdateExecute(w, risk_id, status) ==
  /\ pc[w] = "idle"
  /\ nreq < MaxRequests
  /\ lock = 0
  /\ lock' = w
  /\ nreq' = nreq + 1
  /\ req' = [req EXCEPT ![w] = [ op |-> "update", risk_id |-> risk_id, status |-> status ]]
  /\ pc' = [pc EXCEPT ![w] = "update"]
  /\ UNCHANGED << projects, risks, detected_risks, txn, result >>

\* the UPDATE finds the database locked by another writer: except branch
UpdateBusy(w, risk_id, status) ==
  /\ pc[w] = "idle"
  /\ nreq < MaxRequests
  /\ lock # 0
  /\ nreq' = nreq + 1
  /\ req' = [req EXCEPT ![w] = [ op |-> "update", risk_id |-> risk_id, status |-> status ]]
  /\ result' = [result EXCEPT ![w] = ErrorResult("database is locked")]
  /\ pc' = [pc EXCEPT ![w] = "done"]
  /\ UNCHANGED << projects, risks, lock, detected_risks, txn >>

\* conn.commit(), conn.close() and the success response, whatever the number
\* of rows the UPDATE matched
UpdateCommit(w) ==
  /\ pc[w] = "update"
  /\ risks' = SetStatus(risks, req[w].risk_id, req[w].status)
  /\ lock' = 0
  /\ result' = [result EXCEPT ![w] =
                  [ success |-> TRUE, message |-> "Risk updated successfully" ]]
  /\ pc' = [pc EXCEPT ![w] = "done"]
  /\ UNCHANGED << projects, nreq, req, detected_risks, txn >>

\* -------------------------------------------------------------------- list
\* an Optional value: <<>> is None, <<v>> is the value v
PyNone == <<>>
Some(v) == << v >>

Digits == <<"0","1","2","3","4","5","6","7","8","9">>
IsDigit(c) == \E i \in 1..10 : Digits[i] = c
DigitValue(c) == (CHOOSE i \in 1..10 : Digits[i] = c) - 1

\* str.strip() of blanks
RECURSIVE LStrip(_)
LStrip(s) == IF s # <<>> /\ s[1] = " " THEN LStrip(Tail(s)) ELSE s
RECURSIVE RStrip(_)
RStrip(s) ==
  IF s # <<>> /\ s[Len(s)] = " " THEN RStrip(SubSeq(s, 1, Len(s) - 1)) ELSE s
Strip(s) == RStrip(LStrip(s))

RECURSIVE DigitsValue(_)
DigitsValue(s) ==
  IF s = <<>> THEN 0
  ELSE 10 * DigitsValue(SubSeq(s, 1, Len(s) - 1)) + DigitValue(s[Len(s)])

\* project_id_int of risks_page_main: int(project_id) for a non-blank string,
\* None for None, a blank string or a ValueError (strings of blanks, digits
\* and other characters; no sign)
ProjectIdInt(project_id) ==
  IF project_id = PyNone THEN PyNone
  ELSE IF project_id[1] = <<>> \/ Strip(project_id[1]) = <<>> THEN PyNone
  ELSE IF \A i \in 1..Len(Strip(project_id[1])) : IsDigit(Strip(project_id[1])[i])
       THEN Some(DigitsValue(Strip(project_id[1])))
       ELSE PyNone

\* if project_id_int: the WHERE clause is used only for a truthy integer
HasFilter(project_id_int) == project_id_int # PyNone /\ project_id_int[1] # 0

\* FROM risks r JOIN projects p ON r.project_id = p.id [WHERE r.project_id = ?]
\* in rowid order
RECURSIVE JoinRows(_, _, _)
JoinRows(rs, ps, project_id_int) ==
  IF rs = <<>> THEN <<>>
  ELSE (IF /\ \E i \in 1..Len(ps) : ps[i].id = rs[1].project_id
           /\ HasFilter(project_id_int) => rs[1].project_id = project_id_int[1]
        THEN << [ risk |-> rs[1],
                  project_name |-> ps[CHOOSE i \in 1..Len(ps) : ps[i].id = rs[1].project_id].name ] >>
        ELSE <<>>)
       \o JoinRows(Tail(rs), ps, project_id_int)

\* ORDER BY r.risk_score DESC names no second key: rows of equal risk_score
\* come out in an order SQL leaves open, here ascending or descending rowid
Before(a, b, ties_desc) ==
  \/ a.risk.risk_score > b.risk.risk_score
  \/ /\ a.risk.risk_score = b.risk.risk_score
     /\ IF ties_desc THEN a.risk.id > b.risk.id ELSE a.risk.id < b.risk.id

RECURSIVE InsertRow(_, _, _)
InsertRow(row, sorted, ties_desc) ==
  IF sorted = <<>> THEN << row >>
  ELSE IF Before(row, sorted[1], ties_desc) THEN << row >> \o sorted
  ELSE << sorted[1] >> \o InsertRow(row, Tail(sorted), ties_desc)

RECURSIVE OrderBy(_, _)
OrderBy(rows, ties_desc) ==
  IF rows = <<>> THEN <<>>
  ELSE InsertRow(rows[1], OrderBy(Tail(rows), ties_desc), ties_desc)

\* GET /risks: one SELECT over the committed rows
ListRisks(w, project_id, ties_desc) ==
  /\ pc[w] = "idle"
  /\ nreq < MaxRequests
  /\ nreq' = nreq + 1
  /\ req' = [req EXCEPT ![w] = [ op |-> "list", project_id |-> project_id ]]
  /\ result' = [result EXCEPT ![w] =
        [ success |-> TRUE,
          risks |-> OrderBy(JoinRows(risks, projects, ProjectIdInt(project_id)), ties_desc),
          projects |-> projects,
          selected_project_id |-> ProjectIdInt(project_id) ]]
  /\ pc' = [pc EXCEPT ![w] = "done"]
  /\ UNCHANGED << projects, risks, lock, detected_risks, txn >>

\* ------------------------------------------------------------------ others
\* POST /api/projects: INSERT INTO projects, commit, response
CreateProject(w, name, description) ==
  /\ pc[w] = "idle"
  /\ nreq < MaxRequests
  /\ lock = 0
  /\ nreq' = nreq + 1
  /\ req' = [req EXCEPT ![w] = [ op |-> "create_project", name |-> name ]]
  /\ projects' = Append(projects,
                   ProjectRow(Len(projects) + 1, name,
                              IF description = PyNone THEN "" ELSE description[1]))
  /\ result' = [result EXCEPT ![w] =
                  [ success |-> TRUE, project_id |-> Len(projects) + 1 ]]
  /\ pc' = [pc EXCEPT ![w] = "done"]
  /\ UNCHANGED << risks, lock, detected_risks, txn >>

\* the worker process dies inside a handler: its open transaction is rolled
\* back by SQLite, no response is sent, the worker restarts
Crash(w) ==
  /\ pc[w] \in {"insert", "update"}
  /\ lock' = IF lock = w THEN 0 ELSE lock
  /\ txn' = [txn EXCEPT ![w] = <<>>]
  /\ detected_risks' = [detected_risks EXCEPT ![w] = <<>>]
  /\ req' = [req EXCEPT ![w] = NoRequest]
  /\ result' = [result EXCEPT ![w] = NoResult]
  /\ pc' = [pc EXCEPT ![w] = "idle"]
  /\ UNCHANGED << projects, risks, nreq >>

\* the response has been sent; the handler's locals are gone
Finish(w) ==
  /\ pc[w] = "done"
  /\ detected_risks' = [detected_risks EXCEPT ![w] = <<>>]
  /\ req' = [req EXCEPT ![w] = NoRequest]
  /\ result' = [result EXCEPT ![w] = NoResult]
  /\ pc' = [pc EXCEPT ![w] = "idle"]
  /\ UNCHANGED << projects, risks, lock, nreq, txn >>

\* ------------------------------------------------------------------ inputs
Texts ==
  { <<>>,
    <<"A","l","l"," ","g","o","o","d">>,
    <<"D","e","l","a","y">>,
    <<"B","u","d","g","e","t"," ","I","s","s","u","e">> }
AnalyzeProjectIds == {1, 2, 99}
UpdateRiskIds == {1, 2, 99}
Statuses == {"Closed", "Mitigated"}
ListProjectIds ==
  { PyNone, Some(<<>>), Some(<<" ">>), Some(<<"1">>), Some(<<" ","2">>),
    Some(<<"0">>), Some(<<"9","9">>), Some(<<"x">>) }
ProjectNames == {"Depot"}
ProjectDescriptions == { PyNone, Some("Warehouse") }

Next ==
  \/ \E w \in Workers, text \in Texts, project_id \in AnalyzeProjectIds :
        AnalyzeStart(w, text, project_id)
  \/ \E w \in Workers : AnalyzeInsert(w)
  \/ \E w \in Workers : AnalyzeCommit(w)
  \/ \E w \in Workers : AnalyzeBusy(w)
  \/ \E w \in Workers : AnalyzeStorageError(w)
  \/ \E w \in Workers, risk_id \in UpdateRiskIds, status \in Statuses :
        UpdateExecute(w, risk_id, status)
  \/ \E w \in Workers, risk_id \in UpdateRiskIds, status \in Statuses :
        UpdateBusy(w, risk_id, status)
  \/ \E w \in Workers : UpdateCommit(w)
  \/ \E w \in Workers, project_id \in ListProjectIds, ties_desc \in BOOLEAN :
        ListRisks(w, project_id, ties_desc)
  \/ \E w \in Workers, name \in ProjectNames, description \in ProjectDescriptions :
        CreateProject(w, name, description)
  \/ \E w \in Workers : Crash(w)
  \/ \E w \in Workers : Finish(w)

Spec == Init /\ [][Next]_vars

\* ------------------------------------------------- scoring specification
\* One analysis by one worker, over texts that reach every hit count of every
\* category: the text for a vector n of hit counts holds the first n[c]
\* keywords of each category c, every other one in capitals.
RECURSIVE PrefixText(_, _)
PrefixText(kws, n) ==
  IF n = 0 THEN <<>>
  ELSE PrefixText(kws, n - 1)
       \o (IF n % 2 = 1 THEN Upper(kws[n]) ELSE kws[n]) \o <<" ">>

HitCounts ==
  { n \in [1..Len(Categories) -> 0..MaxHits] :
      \A c \in 1..Len(Categories) : n[c] <= Len(Keywords[c]) }

RECURSIVE ScoreTextFrom(_, _)
ScoreTextFrom(n, c) ==
  IF c > Len(Categories) THEN <<>>
  ELSE PrefixText(Keywords[c], n[c]) \o ScoreTextFrom(n, c + 1)

ScoreText(n) == ScoreTextFrom(n, 1)

NextScore ==
  \/ \E n \in HitCounts : AnalyzeStart(1, ScoreText(n), 1)
  \/ AnalyzeInsert(1)
  \/ AnalyzeCommit(1)

SpecScore == Init /\ [][NextScore]_vars

\* ------------------------------------------------------------- properties
ProjectExists(project_id) == \E i \in 1..Len(projects) : projects[i].id = project_id
RiskExists(risk_id) == \E i \in 1..Len(risks) : risks[i].id = risk_id

\* no keyword of any category is a substring of the lowercased text
NoKeyword(text) ==
  LET lowered == Lower(text) IN
  \A c \in 1..Len(Categories) : \A k \in 1..Len(Keywords[c]) :
     ~Contains(lowered, Keywords[c][k])

\* the number of keywords of category c in the lowercased text
HitCount(text, c) ==
  LET lowered == Lower(text) IN
  Cardinality({ k \in 1..Len(Keywords[c]) : Contains(lowered, Keywords[c][k]) })

\* worker w leaves the insert loop of an analysis in this step
AnalyzeReturns(w) == pc[w] = "insert" /\ pc'[w] = "done"

\* C1: an analyze call for a project id that matches no project ends with a
\* ReferentialIntegrityError, and no risk record refers to a missing project.
C1_ReferentialIntegrity ==
  /\ \A w \in Workers :
       (pc[w] = "done" /\ req[w].op = "analyze" /\ ~ProjectExists(req[w].project_id))
         => (~result[w].success /\ result[w].error = "ReferentialIntegrityError")
  /\ \A i \in 1..Len(risks) : ProjectExists(risks[i].project_id)

\* C2: update_risk_status for a risk id that no record has does not report
\* success (NotFoundError).
C2_UpdateUnknownFails ==
  \A w \in Workers :
    (pc[w] = "done" /\ req[w].op = "update" /\ ~RiskExists(req[w].risk_id))
      => ~result[w].success

\* C3: the save step of an analysis is atomic: whenever the number of
\* committed risk records changes, the step is the commit of one analysis and
\* appends the records of all its detected categories; no other step, a
\* failure or a crash between two inserts included, shows any of them.
C3_AtomicSave ==
  [][ Len(risks') # Len(risks) =>
        \E w \in Workers :
          /\ AnalyzeReturns(w)
          /\ result'[w].success
          /\ Len(risks') = Len(risks) + Len(detected_risks[w])
          /\ \A k \in 1..Len(detected_risks[w]) :
               /\ risks'[Len(risks) + k].category = detected_risks[w][k].category
               /\ risks'[Len(risks) + k].project_id = req[w].project_id ]_vars

\* C3 witness: a list response is being delivered while another worker is
\* between the two inserts of a two-category analysis.
C3_Witness ==
  \E w \in Workers, v \in Workers :
    /\ pc[w] = "insert" /\ Len(detected_risks[w]) = 2 /\ Len(txn[w]) = 1
    /\ pc[v] = "done" /\ req[v].op = "list"

C5_Scorer ==
  \A w \in Workers : \A i \in 1..Len(detected_risks[w]) :
    LET d == detected_risks[w][i]
        n == Len(d.keywords_found)
        c == CHOOSE c \in 1..Len(Categories) : Upper(Categories[c]) = d.category
    IN /\ n >= 1
       /\ n = HitCount(req[w].text, c)
       /\ d.probability = (IF 1800 * n < 10800 THEN 1800 * n ELSE 10800)
       /\ d.impact = (IF c \in {2, 3} THEN 8400 ELSE 6000)
       /\ d.risk_score * 12000 = d.probability * d.impact
       /\ 0 <= d.risk_score /\ d.risk_score <= 7560
       /\ d.priority = "HIGH" <=> d.risk_score > 6000
       /\ d.priority = "MEDIUM" <=> (2400 < d.risk_score /\ d.risk_score <= 6000)
       /\ d.priority = "LOW" <=> d.risk_score <= 2400
       /\ (c = 3 /\ n = 4) => (d.risk_score = 5040 /\ d.priority = "MEDIUM")
       /\ \A j \in 1..Len(detected_risks[w]) :
            detected_risks[w][j].risk_score = d.risk_score
              => detected_risks[w][j].priority = d.priority

\* C5 witness: an analysis detected safety with 4 hits, another category at
\* the cap with 7 hits, and a category of LOW priority.
C5_Witness ==
  \E w \in Workers : \E i, j, k \in 1..Len(detected_risks[w]) :
    /\ detected_risks[w][i].category = Upper(Categories[3])
    /\ Len(detected_risks[w][i].keywords_found) = 4
    /\ Len(detected_risks[w][j].keywords_found) = 7
    /\ detected_risks[w][j].probability = 10800
    /\ detected_risks[w][k].priority = "LOW"

\* C6: the overall score of a successful analysis is the mean of the
\* risk_score of exactly the categories with at least one hit (0 for none),
\* and the level is HIGH iff overall > 0.6, MEDIUM iff 0.3 < overall <= 0.6,
\* LOW otherwise; one schedule hit plus one cost hit give 0.09 and LOW.
C6_Aggregator ==
  \A w \in Workers :
    (pc[w] = "done" /\ req[w].op = "analyze" /\ result[w].success) =>
      LET ds == result[w].detected_risks
          o  == result[w].overall_risk_score
          hit == { c \in 1..Len(Categories) : HitCount(req[w].text, c) >= 1 }
      IN /\ result[w].total_risks_detected = Cardinality(hit)
         /\ Len(ds) = Cardinality(hit)
         /\ { ds[i].category : i \in 1..Len(ds) } = { Upper(Categories[c]) : c \in hit }
         /\ o * Len(ds) = SumScores(ds)
         /\ hit = {} => o = 0
         /\ result[w].risk_level = "HIGH" <=> o > 7200
         /\ result[w].risk_level = "MEDIUM" <=> (3600 < o /\ o <= 7200)
         /\ result[w].risk_level = "LOW" <=> o <= 3600
         /\ (hit = {1, 2} /\ HitCount(req[w].text, 1) = 1 /\ HitCount(req[w].text, 2) = 1)
              => (o = 1080 /\ result[w].risk_level = "LOW")

\* C6 witness: an analysis with one schedule hit and one cost hit returned.
C6_Witness ==
  \E w \in Workers :
    /\ pc[w] = "done" /\ req[w].op = "analyze" /\ result[w].success
    /\ Len(result[w].detected_risks) = 2
    /\ HitCount(req[w].text, 1) = 1 /\ HitCount(req[w].text, 2) = 1
    /\ result[w].overall_risk_score = 1080

\* C7: a successful status update of an existing risk record sets its status
\* and changes no other field of it, no other risk record and no project.
C7_UpdateFrame ==
  [][ \A w \in Workers :
        (pc[w] = "update" /\ pc'[w] = "done" /\ RiskExists(req[w].risk_id)) =>
          /\ result'[w].success
          /\ projects' = projects
          /\ Len(risks') = Len(risks)
          /\ \A i \in 1..Len(risks) :
               IF risks[i].id = req[w].risk_id
               THEN risks'[i] = [risks[i] EXCEPT !.status = req[w].status]
               ELSE risks'[i] = risks[i] ]_vars

\* C7 witness: an update of an existing record has returned while another
\* record is stored, and the two records now differ in status.
C7_Witness ==
  \E w \in Workers : \E i, j \in 1..Len(risks) :
    /\ pc[w] = "done" /\ req[w].op = "update" /\ result[w].success
    /\ risks[i].id = req[w].risk_id /\ risks[i].status = req[w].status
    /\ i # j /\ risks[j].status = "Identified"

\* C8: list_risks returns its records by non-increasing risk_score, records
\* of equal risk_score in insertion order, with a project filter only the
\* records of that project, and the same records always in the same order.
C8_ListOrder ==
  \A w \in Workers :
    (pc[w] = "done" /\ req[w].op = "list") =>
      LET rows == result[w].risks IN
      /\ \A i, j \in 1..Len(rows) :
           i < j => \/ rows[i].risk.risk_score > rows[j].risk.risk_score
                    \/ /\ rows[i].risk.risk_score = rows[j].risk.risk_score
                       /\ rows[i].risk.id < rows[j].risk.id
      /\ ProjectIdInt(req[w].project_id) # PyNone =>
           \A i \in 1..Len(rows) :
              rows[i].risk.project_id = ProjectIdInt(req[w].project_id)[1]
      /\ \A v \in Workers :
           (pc[v] = "done" /\ req[v].op = "list"
              /\ { result[v].risks[i] : i \in 1..Len(result[v].risks) }
                 = { rows[i] : i \in 1..Len(rows) })
             => result[v].risks = rows

\* C9: when the persistence step of an analysis fails, the response carries
\* the error together with the detection result.
C9_DetectionSurvivesFailure ==
  \A w \in Workers :
    (pc[w] = "done" /\ req[w].op = "analyze" /\ ~result[w].success) =>
      /\ "error" \in DOMAIN result[w]
      /\ "detected_risks" \in DOMAIN result[w]
      /\ result[w].detected_risks = detected_risks[w]

\* C10: under every interleaving risk records are append-only (never removed,
\* no field but status ever changes), and every analysis that completes
\* successfully adds exactly one record per detected category, in rule-table
\* order, each with at least one matched keyword.
C10_AppendOnly ==
  [][ /\ Len(risks') >= Len(risks)
      /\ \A i \in 1..Len(risks) :
           [risks'[i] EXCEPT !.status = risks[i].status] = risks[i]
      /\ \A w \in Workers :
           (AnalyzeReturns(w) /\ result'[w].success) =>
             LET ds == result'[w].detected_risks IN
             /\ Len(risks') = Len(risks) + Len(ds)
             /\ \A k \in 1..Len(ds) :
                  /\ risks'[Len(risks) + k].id = Len(risks) + k
                  /\ risks'[Len(risks) + k].category = ds[k].category
                  /\ risks'[Len(risks) + k].project_id = req[w].project_id
                  /\ risks'[Len(risks) + k].risk_score = ds[k].risk_score
                  /\ ds[k].keywords_found # <<>>
                  /\ HitCount(req[w].text,
                       CHOOSE c \in 1..Len(Categories) : Upper(Categories[c]) = ds[k].category) >= 1
             /\ \A k, l \in 1..Len(ds) :
                  k < l => \E c, e \in 1..Len(Categories) :
                             /\ c < e
                             /\ Upper(Categories[c]) = ds[k].category
                             /\ Upper(Categories[e]) = ds[l].category ]_vars

\* C10 witness: the same text was analyzed twice for one project, both
\* analyses are stored, and the status of a stored record was updated.
C10_Witness ==
  \E i, j, k \in 1..Len(risks) :
    /\ i < j
    /\ risks[i].title = risks[j].title
    /\ risks[i].project_id = risks[j].project_id
    /\ risks[k].status # "Identified"

====
